---- MODULE Spec2Model ----
(***************************************************************************)
(* Library lending backend (src/main.py, src/models.py): the three tables  *)
(* books, members, borrowings and the request handlers that change them.   *)
(* Dates are day numbers; `last` is the last request's handler and its      *)
(* response.                                                               *)
(* The columns title, author, name and image are opaque strings that no    *)
(* handler reads in a condition; they are not part of the state.           *)
(***************************************************************************)
EXTENDS Integers, Sequences, FiniteSets, TLC

VARIABLES
    today,         \* date.today(), as a day number
    books,         \* table books: code -> [stock, borrowed]
    members,       \* table members: code -> [penalty_end_date]
    borrowings,    \* table borrowings: set of rows [id, member_code, book_code, borrowed_at]
    last,          \* the last request handled and the response it got
    pc,            \* per concurrent borrow request: the line it is at
    loc            \* per concurrent borrow request: its arguments and ORM-loaded objects

vars == <<today, books, members, borrowings, last, pc, loc>>

----------------------------------------------------------------------------
\* Bounds of the model

MaxMembers == 2
MaxStock == 2
MaxTicks == 3
NumBooks == 3

\* The days on which requests are observed. Day 7 and day 15 are 7 and 15
\* days after day 0 and 8 days apart (the grace period and its boundary);
\* day 18 is the day a penalty set on day 15 for one day overdue ends.
Calendar == <<0, 7, 15, 18, 22>>

BookCodeList == <<"JK-45", "SHR-1", "TW-11", "HOB-83", "NRN-7">>
BookCodes == {BookCodeList[i] : i \in 1..NumBooks}

Stocks == (-1)..MaxStock

\* The titles a library that stocks MaxStock copies of each adds; the last
\* code is never added there, so that its requests can name a missing book
\* on any day
StockedBookCodes == BookCodes \ {BookCodeList[NumBooks]}

Procs == {1, 2}

----------------------------------------------------------------------------
\* models.py

\* Column(Date), nullable: the NULL of penalty_end_date
NULL == -1

\* f"{n:03}": the decimal digits of n, zero-padded to width 3
RECURSIVE Digits(_)
Digits(n) == IF n < 10 THEN <<n>> ELSE Digits(n \div 10) \o <<n % 10>>

Pad03(n) ==
    LET d == Digits(n)
    IN  IF Len(d) >= 3 THEN d
        ELSE [i \in 1..(3 - Len(d)) |-> 0] \o d

\* f"M{len(db.query(Member).all()) + 1:03}"
MemberCode(n) == <<"M">> \o Pad03(n)

\* f"B{len(db.query(Borrowing).all()) + 1:03}"
BorrowingId(n) == <<"B">> \o Pad03(n)

\* member_code arguments a client may send: the codes the server can have
\* generated, and one it has not
MemberCodes == {MemberCode(i) : i \in 1..(MaxMembers + 1)}

Book(stock, borrowed) == [stock |-> stock, borrowed |-> borrowed]

Member(penalty_end_date) == [penalty_end_date |-> penalty_end_date]

Borrowing(id, member_code, book_code, borrowed_at) ==
    [id |-> id, member_code |-> member_code, book_code |-> book_code,
     borrowed_at |-> borrowed_at]

\* member.borrowings: relationship("Borrowing", back_populates="member")
MemberBorrowings(rows, member_code) == {b \in rows : b.member_code = member_code}

\* db.query(Borrowing).filter(member_code == .., book_code == ..)
PairBorrowings(rows, member_code, book_code) ==
    {b \in rows : b.member_code = member_code /\ b.book_code = book_code}

\* primary_key=True on borrowings.id: an INSERT of a present id raises IntegrityError
IdTaken(rows, id) == \E b \in rows : b.id = id

----------------------------------------------------------------------------
\* Responses

Response(status, detail) == [status |-> status, detail |-> detail]

\* get_default_error_response, returned by exception_handler for any exception
\* that is not an HTTPException
InternalError == Response(500, "Internal Server Error")

\* What `last` holds: the handler that answered and its response
Reply(op, response) == [op |-> op, response |-> response]

Idle == pc = [p \in Procs |-> "idle"]

----------------------------------------------------------------------------
\* Initial state: empty tables (Base.metadata.create_all)

Init ==
    /\ today = Calendar[1]
    /\ books = <<>>
    /\ members = <<>>
    /\ borrowings = {}
    /\ last = Reply("none", Response(200, ""))
    /\ pc = [p \in Procs |-> "idle"]
    /\ loc = [p \in Procs |-> <<>>]

\* The calendar day changes between requests
Tick ==
    /\ \E i \in 1..MaxTicks :
          /\ i < Len(Calendar)
          /\ Calendar[i] = today
          /\ today' = Calendar[i + 1]
    /\ last' = Reply("none", Response(200, ""))
    /\ UNCHANGED <<books, members, borrowings, pc, loc>>

----------------------------------------------------------------------------
\* Books

\* POST /books. The row is committed before the cover lookup; the lookup
\* (aiohttp, raise_for_status) either completes or raises.
create_book(code, stock) ==
    /\ UNCHANGED <<today, members, borrowings, pc, loc>>
    /\ IF code \in DOMAIN books
       THEN /\ books' = books
            /\ last' = Reply("create_book", InternalError)
       ELSE /\ books' = [c \in DOMAIN books \cup {code} |->
                            IF c = code THEN Book(stock, 0) ELSE books[c]]
            /\ \E lookup_ok \in BOOLEAN :
                  last' = Reply("create_book",
                                IF lookup_ok THEN Response(200, "Book created")
                                             ELSE InternalError)

\* PUT /books/{code}
update_book(code, stock) ==
    /\ UNCHANGED <<today, members, borrowings, pc, loc>>
    /\ IF code \notin DOMAIN books
       THEN /\ books' = books
            /\ last' = Reply("update_book", Response(404, "Book not found"))
       ELSE /\ books' = [books EXCEPT ![code].stock = stock]
            /\ last' = Reply("update_book", Response(200, "Book updated"))

\* DELETE /books/{code}. borrowings.book_code is a ForeignKey("books.code")
\* with no ON DELETE rule. Whether the engine behind DATABASE_URL enforces
\* foreign keys is not fixed by the code: an enforcing engine refuses the
\* DELETE of a referenced book (IntegrityError), another one deletes the row.
delete_book(code) ==
    /\ UNCHANGED <<today, members, borrowings, pc, loc>>
    /\ IF code \notin DOMAIN books
       THEN /\ books' = books
            /\ last' = Reply("delete_book", Response(404, "Book not found"))
       ELSE \E foreign_keys \in BOOLEAN :
            IF foreign_keys /\ \E b \in borrowings : b.book_code = code
            THEN /\ books' = books
                 /\ last' = Reply("delete_book", InternalError)
            ELSE /\ books' = [c \in DOMAIN books \ {code} |-> books[c]]
                 /\ last' = Reply("delete_book", Response(200, "Book deleted"))

----------------------------------------------------------------------------
\* Members

\* POST /members
create_member ==
    /\ Cardinality(DOMAIN members) < MaxMembers
    /\ LET member_code == MemberCode(Cardinality(DOMAIN members) + 1)
       IN  IF member_code \in DOMAIN members
           THEN /\ members' = members
                /\ last' = Reply("create_member", InternalError)
           ELSE /\ members' = [c \in DOMAIN members \cup {member_code} |->
                                  IF c = member_code THEN Member(NULL) ELSE members[c]]
                /\ last' = Reply("create_member", Response(200,
                                    "Member created"))
    /\ UNCHANGED <<today, books, borrowings, pc, loc>>

----------------------------------------------------------------------------
\* Borrowing

\* .first(): the row of a table with this primary key, as a sequence of
\* length 0 (None) or 1
First(table, code) == IF code \in DOMAIN table THEN <<table[code]>> ELSE <<>>

\* The responses of borrow_book and return_book
NotFoundMember == Response(404, "Member not found")

NotFoundBook == Response(404, "Book not found")

OutOfStock == Response(400, "Book is currently out of stock")

BorrowLimitExceeded == Response(400, "Member cannot borrow more than 2 books")

MemberPenalized == Response(400, "Member is currently penalized")

DuplicateBorrowing == Response(400, "Member has already borrowed this book")

NotBorrowed == Response(400, "Book is not borrowed by this member")

BookBorrowed == Response(200, "Book borrowed")

BookReturned == Response(200, "Book returned")

\* book.borrowed >= book.stock
StockExhausted(book) == book.borrowed >= book.stock

\* Faulty variant (off by one: > 2), for the sensitivity of BorrowLimit
LimitReachedOffByOne(member_borrowings) == Cardinality(member_borrowings) > 2

\* len(member.borrowings) >= 2
LimitReached(member_borrowings) == Cardinality(member_borrowings) >= 2

\* Faulty variant (>= instead of >), for the sensitivity of PenaltyBoundary
PenalizedInclusive(member, day) ==
    member.penalty_end_date # NULL /\ member.penalty_end_date >= day

\* member.penalty_end_date and member.penalty_end_date > date.today()
Penalized(member, day) ==
    member.penalty_end_date # NULL /\ member.penalty_end_date > day

\* Faulty variant (the limit checked before the stock), for the sensitivity
\* of BorrowCheckOrder
BorrowChecksLimitFirst(member, book, member_borrowings, existing_borrowing, day) ==
    IF member = <<>> THEN NotFoundMember
    ELSE IF book = <<>> THEN NotFoundBook
    ELSE IF LimitReached(member_borrowings) THEN BorrowLimitExceeded
    ELSE IF StockExhausted(book[1]) THEN OutOfStock
    ELSE IF Penalized(member[1], day) THEN MemberPenalized
    ELSE IF existing_borrowing # {} THEN DuplicateBorrowing
    ELSE BookBorrowed

\* The checks of borrow_book in the order of the code, on the objects the
\* request has loaded: the response of the first HTTPException raised, or
\* BookBorrowed when none is.
BorrowChecks(member, book, member_borrowings, existing_borrowing, day) ==
    IF member = <<>> THEN NotFoundMember
    ELSE IF book = <<>> THEN NotFoundBook
    ELSE IF StockExhausted(book[1]) THEN OutOfStock
    ELSE IF LimitReached(member_borrowings) THEN BorrowLimitExceeded
    ELSE IF Penalized(member[1], day) THEN MemberPenalized
    ELSE IF existing_borrowing # {} THEN DuplicateBorrowing
    ELSE BookBorrowed

\* borrowing_id = f"B{len(db.query(Borrowing).all()) + 1:03}"
NextBorrowingId(rows) == BorrowingId(Cardinality(rows) + 1)

\* db.add(borrowing); book.borrowed += 1; db.commit(): one transaction. The
\* INSERT of an id already present raises IntegrityError and nothing is
\* written; otherwise the row is inserted and the book's counter is set to
\* the loaded value plus one.
BorrowCommit(member_code, book_code, borrowing_id, loaded_borrowed) ==
    IF IdTaken(borrowings, borrowing_id)
    THEN /\ UNCHANGED <<books, borrowings>>
         /\ last' = Reply("borrow_book", InternalError)
    ELSE /\ borrowings' = borrowings \cup
                {Borrowing(borrowing_id, member_code, book_code, today)}
         /\ books' = [books EXCEPT ![book_code].borrowed = loaded_borrowed + 1]
         /\ last' = Reply("borrow_book", BookBorrowed)

\* POST /borrowings, handled with no other request in progress
borrow_book(member_code, book_code) ==
    /\ UNCHANGED <<today, members, pc, loc>>
    /\ LET member == First(members, member_code)
           book == First(books, book_code)
           chk == BorrowChecks(member, book,
                               MemberBorrowings(borrowings, member_code),
                               PairBorrowings(borrowings, member_code, book_code),
                               today)
       IN  IF chk # BookBorrowed
           THEN /\ UNCHANGED <<books, borrowings>>
                /\ last' = Reply("borrow_book", chk)
           ELSE BorrowCommit(member_code, book_code,
                             NextBorrowingId(borrowings), book[1].borrowed)

\* days_overdue = (date.today() - borrowing.borrowed_at).days - 7
DaysOverdue(borrowing, day) == (day - borrowing.borrowed_at) - 7

\* Faulty variant (a later penalty already set is kept), for the sensitivity
\* of PenaltyOnReturn
PenaltyAfterReturnKeepLater(member, borrowing, day) ==
    IF /\ DaysOverdue(borrowing, day) > 0
       /\ member.penalty_end_date < day + DaysOverdue(borrowing, day) * 3
    THEN [member EXCEPT !.penalty_end_date = day + DaysOverdue(borrowing, day) * 3]
    ELSE member

\* if days_overdue > 0: member.penalty_end_date = today + timedelta(days_overdue * 3)
PenaltyAfterReturn(member, borrowing, day) ==
    IF DaysOverdue(borrowing, day) > 0
    THEN [member EXCEPT !.penalty_end_date = day + DaysOverdue(borrowing, day) * 3]
    ELSE member

\* Faulty variant (the counter decremented before the borrowing is looked
\* up), for the sensitivity of ReturnNotBorrowed
return_book_decrement_first(member_code, book_code) ==
    /\ UNCHANGED <<today, pc, loc>>
    /\ LET member == First(members, member_code)
           book == First(books, book_code)
       IN  IF member = <<>> \/ book = <<>>
           THEN /\ UNCHANGED <<books, members, borrowings>>
                /\ last' = Reply("return_book", InternalError)
           ELSE IF PairBorrowings(borrowings, member_code, book_code) = {}
           THEN /\ books' = [books EXCEPT ![book_code].borrowed = book[1].borrowed - 1]
                /\ UNCHANGED <<members, borrowings>>
                /\ last' = Reply("return_book", NotBorrowed)
           ELSE \E borrowing \in PairBorrowings(borrowings, member_code, book_code) :
                /\ members' = [members EXCEPT ![member_code] =
                                  PenaltyAfterReturn(member[1], borrowing, today)]
                /\ borrowings' = borrowings \ {borrowing}
                /\ books' = [books EXCEPT ![book_code].borrowed = book[1].borrowed - 1]
                /\ last' = Reply("return_book", BookReturned)

\* POST /returns. Line 169 reads member.code and book.code before the
\* `if not member` / `if not book` checks: with either None it raises
\* AttributeError, which exception_handler turns into the generic 500.
return_book(member_code, book_code) ==
    /\ UNCHANGED <<today, pc, loc>>
    /\ LET member == First(members, member_code)
           book == First(books, book_code)
       IN  IF member = <<>> \/ book = <<>>
           THEN /\ UNCHANGED <<books, members, borrowings>>
                /\ last' = Reply("return_book", InternalError)
           ELSE IF PairBorrowings(borrowings, member_code, book_code) = {}
           THEN /\ UNCHANGED <<books, members, borrowings>>
                /\ last' = Reply("return_book", NotBorrowed)
           ELSE \E borrowing \in PairBorrowings(borrowings, member_code, book_code) :
                /\ members' = [members EXCEPT ![member_code] =
                                  PenaltyAfterReturn(member[1], borrowing, today)]
                /\ borrowings' = borrowings \ {borrowing}
                /\ books' = [books EXCEPT ![book_code].borrowed = book[1].borrowed - 1]
                /\ last' = Reply("return_book", BookReturned)

----------------------------------------------------------------------------
\* Requests handled one at a time

CreateBook ==
    /\ Idle
    /\ \E code \in BookCodes, stock \in Stocks : create_book(code, stock)

\* POST /books for a title stocked with MaxStock copies
CreateStockedBook ==
    /\ Idle
    /\ \E code \in StockedBookCodes : create_book(code, MaxStock)

UpdateBook ==
    /\ Idle
    /\ \E code \in BookCodes, stock \in Stocks : update_book(code, stock)

DeleteBook ==
    /\ Idle
    /\ \E code \in BookCodes : delete_book(code)

CreateMember == Idle /\ create_member

BorrowBook ==
    /\ Idle
    /\ \E member_code \in MemberCodes, book_code \in BookCodes :
          borrow_book(member_code, book_code)

ReturnBook ==
    /\ Idle
    /\ \E member_code \in MemberCodes, book_code \in BookCodes :
          return_book(member_code, book_code)

NextDay == Idle /\ Tick

\* The whole service: every handler, on any day
Next ==
    \/ NextDay
    \/ CreateBook
    \/ UpdateBook
    \/ DeleteBook
    \/ CreateMember
    \/ BorrowBook
    \/ ReturnBook

Spec == Init /\ [][Next]_vars

\* The product of catalogue maintenance, lending and the calendar is beyond
\* exhaustive search at these bounds; the properties are checked under the
\* specifications below, each the service with a subset of its requests.

\* Lending on one day: members join, books of any stock are added, books
\* are borrowed and returned.
NextLending ==
    \/ CreateBook
    \/ CreateMember
    \/ BorrowBook
    \/ ReturnBook

SpecLending == Init /\ [][NextLending]_vars

\* Lending over the days of the calendar, every title added with MaxStock
\* copies
NextClock ==
    \/ NextDay
    \/ CreateStockedBook
    \/ CreateMember
    \/ BorrowBook
    \/ ReturnBook

SpecClock == Init /\ [][NextClock]_vars

\* Catalogue maintenance on one day: titles are added with MaxStock copies,
\* restocked to any stock and deleted, also while they are lent.
NextCatalog ==
    \/ CreateStockedBook
    \/ UpdateBook
    \/ DeleteBook
    \/ CreateMember
    \/ BorrowBook
    \/ ReturnBook

SpecCatalog == Init /\ [][NextCatalog]_vars

----------------------------------------------------------------------------
\* Two POST /borrowings requests in progress at once. Each runs borrow_book
\* in its own Session (get_db): its SELECTs see what is committed when they
\* run (READ COMMITTED), its objects keep the values they were loaded with,
\* and its INSERT and UPDATE are written together at db.commit().

Loaded(member_code, book_code, member, book, member_borrowings, borrowing_id) ==
    [member_code |-> member_code, book_code |-> book_code, member |-> member,
     book |-> book, member_borrowings |-> member_borrowings,
     borrowing_id |-> borrowing_id]

\* raise HTTPException: the request ends with this response
Raise(p, chk) ==
    /\ pc' = [pc EXCEPT ![p] = "done"]
    /\ last' = Reply("borrow_book", chk)
    /\ UNCHANGED <<today, books, members, borrowings, loc>>

Goto(p, line, loaded) ==
    /\ pc' = [pc EXCEPT ![p] = line]
    /\ loc' = [loc EXCEPT ![p] = loaded]
    /\ UNCHANGED <<today, books, members, borrowings, last>>

\* line 137: member = db.query(Member).filter(Member.code == member_code).first()
borrow_l137(p) ==
    /\ pc[p] = "idle"
    /\ \E member_code \in MemberCodes, book_code \in BookCodes :
          Goto(p, "l138", Loaded(member_code, book_code,
                                 First(members, member_code), <<>>, {}, <<>>))

\* line 138: book = db.query(Book)...first(); lines 140-145 on the loaded objects
borrow_l138(p) ==
    /\ pc[p] = "l138"
    /\ LET book == First(books, loc[p].book_code)
           chk == BorrowChecks(loc[p].member, book, {}, {}, today)
       IN  IF chk # BookBorrowed
           THEN Raise(p, chk)
           ELSE Goto(p, "l146", [loc[p] EXCEPT !.book = book])

\* line 146: member.borrowings is loaded (once) here; lines 146-149
borrow_l146(p) ==
    /\ pc[p] = "l146"
    /\ LET member_borrowings == MemberBorrowings(borrowings, loc[p].member_code)
           chk == BorrowChecks(loc[p].member, loc[p].book, member_borrowings, {}, today)
       IN  IF chk # BookBorrowed
           THEN Raise(p, chk)
           ELSE Goto(p, "l152", [loc[p] EXCEPT !.member_borrowings = member_borrowings])

\* line 152: existing_borrowing = db.query(Borrowing).filter(...).first(); lines 153-154
borrow_l152(p) ==
    /\ pc[p] = "l152"
    /\ LET existing_borrowing ==
               PairBorrowings(borrowings, loc[p].member_code, loc[p].book_code)
           chk == BorrowChecks(loc[p].member, loc[p].book, loc[p].member_borrowings,
                               existing_borrowing, today)
       IN  IF chk # BookBorrowed
           THEN Raise(p, chk)
           ELSE Goto(p, "l156", loc[p])

\* line 156: borrowing_id from the rows committed now; lines 157-159 are local
borrow_l156(p) ==
    /\ pc[p] = "l156"
    /\ Goto(p, "l160", [loc[p] EXCEPT !.borrowing_id = NextBorrowingId(borrowings)])

\* line 160: db.commit()
borrow_l160(p) ==
    /\ pc[p] = "l160"
    /\ BorrowCommit(loc[p].member_code, loc[p].book_code, loc[p].borrowing_id,
                    loc[p].book[1].borrowed)
    /\ pc' = [pc EXCEPT ![p] = "done"]
    /\ UNCHANGED <<today, members, loc>>

\* The tables when the two requests arrive: MaxMembers members without a
\* penalty, every book with the same stock, and either nothing lent or the
\* first book lent to the first member (B001) on the same day.
InitConc ==
    /\ today = Calendar[1]
    /\ members = [c \in {MemberCode(i) : i \in 1..MaxMembers} |-> Member(NULL)]
    /\ \E stock \in 1..MaxStock, lent \in BOOLEAN :
          /\ books = [c \in BookCodes |->
                        Book(stock, IF lent /\ c = BookCodeList[1] THEN 1 ELSE 0)]
          /\ borrowings = IF lent
                          THEN {Borrowing(BorrowingId(1), MemberCode(1),
                                          BookCodeList[1], Calendar[1])}
                          ELSE {}
    /\ last = Reply("none", Response(200, ""))
    /\ pc = [p \in Procs |-> "idle"]
    /\ loc = [p \in Procs |-> <<>>]

NextConc ==
    \E p \in Procs :
        \/ borrow_l137(p)
        \/ borrow_l138(p)
        \/ borrow_l146(p)
        \/ borrow_l152(p)
        \/ borrow_l156(p)
        \/ borrow_l160(p)

SpecConc == InitConc /\ [][NextConc]_vars

----------------------------------------------------------------------------
\* Properties

\* The Borrowing rows of a book
BookBorrowings(book_code) == {b \in borrowings : b.book_code = book_code}

\* C1: every stored book satisfies 0 <= borrowed <= stock.
StockInvariant ==
    \A code \in DOMAIN books :
        0 <= books[code].borrowed /\ books[code].borrowed <= books[code].stock

\* The first four preconditions of a borrow request hold: the member exists,
\* the book exists, a copy is left and the member holds fewer than 2 books.
ReachesPenaltyCheck(member_code, book_code) ==
    /\ member_code \in DOMAIN members
    /\ book_code \in DOMAIN books
    /\ books[book_code].borrowed < books[book_code].stock
    /\ Cardinality(MemberBorrowings(borrowings, member_code)) < 2

ReturnNotFound ==
    [][\A member_code \in MemberCodes, book_code \in BookCodes :
          return_book(member_code, book_code)
          => /\ member_code \notin DOMAIN members => last'.response = NotFoundMember
             /\ (member_code \in DOMAIN members /\ book_code \notin DOMAIN books)
                    => last'.response = NotFoundBook]_vars

\* The six preconditions of a borrow request, as the lending rules state them
BorrowAllowed(member_code, book_code) ==
    /\ ReachesPenaltyCheck(member_code, book_code)
    /\ \/ members[member_code].penalty_end_date = NULL
       \/ members[member_code].penalty_end_date < today
    /\ PairBorrowings(borrowings, member_code, book_code) = {}

\* "B" and the number in three digits, for the numbers below 1000
ThreeDigitId(n) == <<"B", n \div 100, (n \div 10) % 10, n % 10>>

\* C4: a borrow request that passes the six preconditions creates one
\* Borrowing, with the id 'B' + (number of Borrowings + 1) in three digits, an
\* id no stored Borrowing has, and increments book.borrowed by 1.
BorrowCreatesFreshId ==
    [][\A member_code \in MemberCodes, book_code \in BookCodes :
          ( /\ borrow_book(member_code, book_code)
            /\ BorrowAllowed(member_code, book_code) )
          => /\ last'.response = BookBorrowed
             /\ \E row \in borrowings' :
                   /\ borrowings' = borrowings \cup {row}
                   /\ row.id = ThreeDigitId(Cardinality(borrowings) + 1)
                   /\ \A b \in borrowings : b.id # row.id
                   /\ row.member_code = member_code
                   /\ row.book_code = book_code
             /\ books'[book_code].borrowed = books[book_code].borrowed + 1]_vars

\* No member has more than 2 Borrowings, no (member, book) pair more than one.
BorrowLimitInvariant ==
    /\ \A member_code \in MemberCodes :
          Cardinality(MemberBorrowings(borrowings, member_code)) <= 2
    /\ \A member_code \in MemberCodes, book_code \in BookCodes :
          Cardinality(PairBorrowings(borrowings, member_code, book_code)) <= 1

\* A borrow request for an available book: with exactly 2 Borrowings the
\* member is rejected with BorrowLimitExceeded and nothing is stored; with
\* exactly 1, no penalty and another book, no rule rejects the request.
BorrowLimitStep ==
    \A member_code \in MemberCodes, book_code \in BookCodes :
        ( /\ borrow_book(member_code, book_code)
          /\ member_code \in DOMAIN members
          /\ book_code \in DOMAIN books
          /\ books[book_code].borrowed < books[book_code].stock )
        => LET held == Cardinality(MemberBorrowings(borrowings, member_code))
           IN  /\ held = 2 =>
                     (last'.response = BorrowLimitExceeded /\ borrowings' = borrowings)
               /\ ( /\ held = 1
                    /\ members[member_code].penalty_end_date = NULL
                    /\ PairBorrowings(borrowings, member_code, book_code) = {} )
                     => last'.response.status \notin {400, 404}

\* C5: the per-member limit and the uniqueness of (member, book) hold in
\* every state, a member with 2 Borrowings is rejected with
\* BorrowLimitExceeded and a member with 1 is not rejected.
BorrowLimit == []BorrowLimitInvariant /\ [][BorrowLimitStep]_vars

\* A member holding 2 books has just been rejected with BorrowLimitExceeded.
ThirdBorrowRejected ==
    /\ last.response = BorrowLimitExceeded
    /\ \E member_code \in DOMAIN members :
          Cardinality(MemberBorrowings(borrowings, member_code)) = 2

\* The preconditions of a borrow request that fail, by their place in the
\* order member exists, book exists, borrowed < stock, fewer than 2
\* Borrowings, not penalized, no Borrowing for the pair. A member is
\* penalized while penalty_end_date is after today (C2, amended).
FailingPreconditions(member_code, book_code) ==
    {i \in 1..6 :
        \/ i = 1 /\ member_code \notin DOMAIN members
        \/ i = 2 /\ book_code \notin DOMAIN books
        \/ /\ i = 3
           /\ book_code \in DOMAIN books
           /\ ~(books[book_code].borrowed < books[book_code].stock)
        \/ i = 4 /\ ~(Cardinality(MemberBorrowings(borrowings, member_code)) < 2)
        \/ /\ i = 5
           /\ member_code \in DOMAIN members
           /\ members[member_code].penalty_end_date # NULL
           /\ members[member_code].penalty_end_date > today
        \/ i = 6 /\ PairBorrowings(borrowings, member_code, book_code) # {}}

BorrowErrors ==
    <<NotFoundMember, NotFoundBook, OutOfStock, BorrowLimitExceeded,
      MemberPenalized, DuplicateBorrowing>>

\* C6: a borrow request reports the error of the first precondition that
\* fails, whatever else fails with it, and then changes no stored record; when
\* none fails it reports none of these errors.
BorrowCheckOrder ==
    [][\A member_code \in MemberCodes, book_code \in BookCodes :
          borrow_book(member_code, book_code)
          => LET failing == FailingPreconditions(member_code, book_code)
             IN  IF failing # {}
                 THEN /\ \E i \in failing :
                            /\ \A j \in failing : i <= j
                            /\ last'.response = BorrowErrors[i]
                      /\ books' = books
                      /\ members' = members
                      /\ borrowings' = borrowings
                 ELSE \A i \in 1..6 : last'.response # BorrowErrors[i]]_vars

\* A borrow request has just been rejected with MemberPenalized while the
\* penalized member still holds a book of which a copy is left.
PenalizedBorrowRejected ==
    /\ last = Reply("borrow_book", MemberPenalized)
    /\ \E b \in borrowings :
          /\ members[b.member_code].penalty_end_date > today
          /\ books[b.book_code].borrowed < books[b.book_code].stock

\* C7: a successful return after d days leaves penalty_end_date unchanged
\* when d <= 7 and sets it to today + 3 * (d - 7) when d > 7 (today + 3 for
\* d = 8, today + 24 for d = 15), whatever it was before.
PenaltyOnReturn ==
    [][\A member_code \in MemberCodes, book_code \in BookCodes :
          ( /\ return_book(member_code, book_code)
            /\ last'.response = BookReturned )
          => \E borrowing \in PairBorrowings(borrowings, member_code, book_code) :
                LET d == today - borrowing.borrowed_at
                    before == members[member_code].penalty_end_date
                    after == members'[member_code].penalty_end_date
                IN  /\ borrowings' = borrowings \ {borrowing}
                    /\ d <= 7 => after = before
                    /\ d > 7 => after = today + 3 * (d - 7)
                    /\ d = 8 => after = today + 3
                    /\ d = 15 => after = today + 24]_vars

\* A book has just been returned 15 days after it was borrowed.
ReturnedFifteenDaysLate ==
    /\ last = Reply("return_book", BookReturned)
    /\ \E member_code \in DOMAIN members :
          members[member_code].penalty_end_date = today + 24

\* C8: a return by an existing member of an existing book the member has not
\* borrowed fails with NotBorrowed and changes no book, member or Borrowing.
ReturnNotBorrowed ==
    [][\A member_code \in MemberCodes, book_code \in BookCodes :
          ( /\ return_book(member_code, book_code)
            /\ member_code \in DOMAIN members
            /\ book_code \in DOMAIN books
            /\ PairBorrowings(borrowings, member_code, book_code) = {} )
          => /\ last'.response = NotBorrowed
             /\ books' = books
             /\ members' = members
             /\ borrowings' = borrowings]_vars

\* A return has just failed with NotBorrowed while books are lent.
ReturnRejected ==
    /\ last = Reply("return_book", NotBorrowed)
    /\ \E code \in DOMAIN books : books[code].borrowed > 0

\* C9: whatever the interleaving of two borrow requests, no book has
\* borrowed > stock or a counter that differs from its number of Borrowings,
\* no member has more than 2 Borrowings and no (member, book) pair has two.
ConcurrentBorrowSafe ==
    /\ \A code \in DOMAIN books :
          /\ books[code].borrowed <= books[code].stock
          /\ books[code].borrowed = Cardinality(BookBorrowings(code))
    /\ BorrowLimitInvariant

\* C10: each stored book's borrowed counter equals the number of Borrowings
\* of that book.
BorrowedCountsRows ==
    \A code \in DOMAIN books :
        books[code].borrowed = Cardinality(BookBorrowings(code))

====
